---- MODULE Spec2Model ----
(***************************************************************************)
(* Model of src/main.py: ReconciliadorBasesOtimizado, the reconciliation   *)
(* of two tables (pandas DataFrames) by positional index or by key.        *)
(*                                                                         *)
(* A DataFrame is [columns |-> sequence of labels, rows |-> sequence of    *)
(* functions label -> cell]; its index is the RangeIndex 0..n-1, so the    *)
(* row with index label p is rows[p+1].  A cell is a non-null value or NaN.*)
(* A Python str built by str()/f-strings is a sequence of tokens.          *)
(***************************************************************************)
EXTENDS Integers, Sequences, FiniteSets, TLC

VARIABLES arquivo_base1, arquivo_base2, chave_primaria, df1, df2,
          divergencias_df, resumo_stats, pc, saida

vars == <<arquivo_base1, arquivo_base2, chave_primaria, df1, df2,
          divergencias_df, resumo_stats, pc, saida>>

(***************************************************************************)
(* Bounds of the model.                                                    *)
(***************************************************************************)
\* rows of one table
MaxLinhas == 2
\* cells of the two tables together
MaxCelulas == 6

(***************************************************************************)
(* Values.                                                                 *)
(***************************************************************************)
NaN == "NaN"
Valores == {"a", "b"}
Celulas == Valores \cup {NaN}
\* sort order of the cells of an object column: values ascending, NaN last
PostoValor == ("a" :> 0) @@ ("b" :> 1) @@ (NaN :> 9)
\* str(i) of the row positions
Digitos == <<"0", "1", "2", "3", "4", "5", "6", "7", "8", "9">>

None == [none |-> TRUE]
LinhaOriginal == "__linha_original__"

Range(s) == {s[i] : i \in DOMAIN s}
Indice(s, e) == CHOOSE i \in DOMAIN s : s[i] = e
\* the lists a Python set can be iterated into: every order of its elements
Ordens(S) == {s \in [1..Cardinality(S) -> S] : Range(s) = S}

RECURSIVE Concat(_)
Concat(ss) == IF ss = <<>> THEN <<>> ELSE Head(ss) \o Concat(Tail(ss))

\* pd.isna
isna(v) == v = NaN

\* DataFrame.empty: some axis has length 0
empty(df) == Len(df.columns) = 0 \/ Len(df.rows) = 0

\* pd.DataFrame(): no columns, no rows
DataFrameVazio == [columns |-> <<>>, rows |-> <<>>]

\* df[cols]: the columns cols, in that order, of every row
Projetar(df, cols) ==
    [columns |-> cols,
     rows |-> [i \in 1..Len(df.rows) |-> [c \in Range(cols) |-> df.rows[i][c]]]]

(***************************************************************************)
(* The key given to the constructor: None, a column name or a list.        *)
(***************************************************************************)
ChaveNone == [tipo |-> "None"]
ChaveStr(nome) == [tipo |-> "str", nome |-> nome]
ChaveLista(nomes) == [tipo |-> "list", nomes |-> nomes]
isinstance_str(ch) == ch.tipo = "str"

(***************************************************************************)
(* validar_estrutura: the tables after it, for one iteration order of the  *)
(* set of common columns.                                                  *)
(***************************************************************************)
ColunasComuns(d1, d2) == Range(d1.columns) \cap Range(d2.columns)

EstruturaValidada(d1, d2, colunas_comuns) ==
    IF Range(d1.columns) # Range(d2.columns)
    THEN <<Projetar(d1, colunas_comuns), Projetar(d2, colunas_comuns)>>
    ELSE <<d1, d2>>

(***************************************************************************)
(* preparar_dados_para_comparacao                                          *)
(***************************************************************************)
\* row numbers counted from 1
ComIndice_baseUm(df) ==
    [columns |-> Append(df.columns, LinhaOriginal),
     rows |-> [i \in 1..Len(df.rows) |-> df.rows[i] @@ (LinhaOriginal :> i)]]

\* df['__linha_original__'] = df.index
ComIndice(df) ==
    [columns |-> Append(df.columns, LinhaOriginal),
     rows |-> [i \in 1..Len(df.rows) |-> df.rows[i] @@ (LinhaOriginal :> (i - 1))]]

preparar_dados_para_comparacao(d1, d2, chave) ==
    IF chave = ChaveNone
    THEN [df1_prep |-> ComIndice(d1), df2_prep |-> ComIndice(d2),
          chave_merge |-> ChaveStr(LinhaOriginal)]
    ELSE [df1_prep |-> d1, df2_prep |-> d2, chave_merge |-> chave]

(***************************************************************************)
(* pd.merge(df1_prep, df2_prep, on=chave_merge, how='outer',               *)
(*          suffixes=('_base1', '_base2'), indicator=True)                 *)
(* A label of the merged frame is <<name>> or <<name, suffix>>.            *)
(***************************************************************************)
\* on=: a name is one key column, a list is its columns
ColunasChave(chave_merge) ==
    IF isinstance_str(chave_merge) THEN <<chave_merge.nome>> ELSE chave_merge.nomes

ValoresChave(row, on) == [k \in 1..Len(on) |-> row[on[k]]]

\* the sort position of a key cell: the int64 row index by value, a cell by PostoValor
Posto(nome, v) == IF nome = LinhaOriginal THEN v ELSE PostoValor[v]
PostosChave(kv, on) == [k \in 1..Len(on) |-> Posto(on[k], kv[k])]
LexMenor(a, b) == \E i \in DOMAIN a : a[i] < b[i] /\ \A j \in 1..(i - 1) : a[j] = b[j]

\* an outer join sorts the keys lexicographically
RECURSIVE OrdenarChaves(_, _)
OrdenarChaves(S, on) ==
    IF S = {} THEN <<>>
    ELSE LET m == CHOOSE m \in S :
                    \A o \in S \ {m} : LexMenor(PostosChave(m, on), PostosChave(o, on))
         IN <<m>> \o OrdenarChaves(S \ {m}, on)

\* the rows of df holding key kv, in row order (NaN keys match each other)
LinhasComChave(df, on, kv) ==
    SelectSeq([i \in 1..Len(df.rows) |-> i],
              LAMBDA i : ValoresChave(df.rows[i], on) = kv)

\* a join that keeps one right row per key
ParesDoGrupo_umaLinhaPorChave(L, R) ==
    IF R = <<>> THEN [a \in 1..Len(L) |-> <<L[a], 0>>]
    ELSE IF L = <<>> THEN [b \in 1..Len(R) |-> <<0, R[b]>>]
    ELSE [a \in 1..Len(L) |-> <<L[a], R[1]>>]

\* the row pairs of one key: one-sided rows, or every left row with every right row
ParesDoGrupo(L, R) ==
    IF R = <<>> THEN [a \in 1..Len(L) |-> <<L[a], 0>>]
    ELSE IF L = <<>> THEN [b \in 1..Len(R) |-> <<0, R[b]>>]
    ELSE [p \in 1..(Len(L) * Len(R)) |->
             <<L[((p - 1) \div Len(R)) + 1], R[((p - 1) % Len(R)) + 1]>>]

\* the aligned pairs <<row of left or 0, row of right or 0>>, in the join's order
ParesAlinhados(left, right, on) ==
    LET chaves == {ValoresChave(left.rows[i], on) : i \in 1..Len(left.rows)}
                  \cup {ValoresChave(right.rows[j], on) : j \in 1..Len(right.rows)}
        ordenadas == OrdenarChaves(chaves, on)
    IN Concat([g \in 1..Len(ordenadas) |->
                  ParesDoGrupo(LinhasComChave(left, on, ordenadas[g]),
                               LinhasComChave(right, on, ordenadas[g]))])

\* a suffix goes to a non-key column that both frames have
Rotulo(c, on, outra, sufixo) ==
    IF c \in Range(on) \/ c \notin Range(outra.columns) THEN <<c>> ELSE <<c, sufixo>>

NaoChave(df, on) == SelectSeq(df.columns, LAMBDA c : c \notin Range(on))

Indicador(par) ==
    IF par[2] = 0 THEN "left_only" ELSE IF par[1] = 0 THEN "right_only" ELSE "both"

LinhaMerged(left, right, on, par) ==
    [l \in {<<k>> : k \in Range(on)} |->
        IF par[1] # 0 THEN left.rows[par[1]][l[1]] ELSE right.rows[par[2]][l[1]]]
    @@ [l \in {Rotulo(c, on, right, "_base1") : c \in Range(NaoChave(left, on))} |->
        IF par[1] # 0 THEN left.rows[par[1]][l[1]] ELSE NaN]
    @@ [l \in {Rotulo(c, on, left, "_base2") : c \in Range(NaoChave(right, on))} |->
        IF par[2] # 0 THEN right.rows[par[2]][l[1]] ELSE NaN]
    @@ (<<"_merge">> :> Indicador(par))

\* erro: the KeyError of a key column that one of the frames does not have
merge(left, right, chave_merge) ==
    LET on == ColunasChave(chave_merge) IN
    IF \E k \in Range(on) : k \notin Range(left.columns) \/ k \notin Range(right.columns)
    THEN [erro |-> TRUE, df |-> DataFrameVazio]
    ELSE LET pares == ParesAlinhados(left, right, on)
             esq == NaoChave(left, on)
             dir == NaoChave(right, on)
         IN [erro |-> FALSE,
             df |-> [columns |->
                        [i \in 1..Len(left.columns) |->
                            Rotulo(left.columns[i], on, right, "_base1")]
                        \o [i \in 1..Len(dir) |-> Rotulo(dir[i], on, left, "_base2")]
                        \o << <<"_merge">> >>,
                     rows |-> [p \in 1..Len(pares) |->
                                  LinhaMerged(left, right, on, pares[p])]]]

(***************************************************************************)
(* str(chave_valor): the tokens of the string                              *)
(***************************************************************************)
Token(nome, v) ==
    IF nome = LinhaOriginal THEN Digitos[v + 1] ELSE IF isna(v) THEN "nan" ELSE v

\* linha[chave_merge] of a name, [linha[col] for col in chave_merge] of a list
chave_valor(chave_merge, linha) ==
    IF isinstance_str(chave_merge)
    THEN linha[<<chave_merge.nome>>]
    ELSE [k \in 1..Len(chave_merge.nomes) |-> linha[<<chave_merge.nomes[k]>>]]

str(chave_merge, valor) ==
    IF isinstance_str(chave_merge)
    THEN <<Token(chave_merge.nome, valor)>>
    ELSE <<"[">>
         \o [k \in 1..Len(chave_merge.nomes) |-> Token(chave_merge.nomes[k], valor[k])]
         \o <<"]">>

(***************************************************************************)
(* identificar_divergencias_com_merge                                      *)
(* A divergence record carries, beside the fields of the dict, par: the    *)
(* index label of its row of merged (the loops' discarded iterrows label). *)
(***************************************************************************)
ColunasDivergencias == <<"chave", "tipo", "coluna", "valor_base1", "valor_base2", "descricao">>

\* merged[merged['_merge'] == ind]: the positions of its rows, in merged's order
Filtrar(merged, ind) ==
    SelectSeq([p \in 1..Len(merged.rows) |-> p],
              LAMBDA p : merged.rows[p][<<"_merge">>] = ind)

\* col != chave_merge: a str differs from another str by value, and from every list
DiferenteDaChave(col, chave_merge) ==
    IF isinstance_str(chave_merge) THEN col # chave_merge.nome ELSE TRUE

colunas_comparacao(d1, chave_merge) ==
    SelectSeq(d1.columns,
              LAMBDA col : DiferenteDaChave(col, chave_merge) /\ col # LinhaOriginal)

LinhaFaltandoBase2(merged, chave_merge, p) ==
    [par |-> p - 1,
     chave |-> str(chave_merge, chave_valor(chave_merge, merged.rows[p])),
     tipo |-> "LINHA_FALTANDO_BASE2",
     coluna |-> "TODAS",
     valor_base1 |-> "LINHA_EXISTE",
     valor_base2 |-> "LINHA_INEXISTENTE",
     descricao |-> <<"Linha com chave">> \o str(chave_merge, chave_valor(chave_merge, merged.rows[p]))
                   \o <<"existe na Base 1 mas nao na Base 2">>]

LinhaFaltandoBase1(merged, chave_merge, p) ==
    [par |-> p - 1,
     chave |-> str(chave_merge, chave_valor(chave_merge, merged.rows[p])),
     tipo |-> "LINHA_FALTANDO_BASE1",
     coluna |-> "TODAS",
     valor_base1 |-> "LINHA_INEXISTENTE",
     valor_base2 |-> "LINHA_EXISTE",
     descricao |-> <<"Linha com chave">> \o str(chave_merge, chave_valor(chave_merge, merged.rows[p]))
                   \o <<"existe na Base 2 mas nao na Base 1">>]

ValorOuNull(v) == IF ~isna(v) THEN v ELSE "NULL"

ValorDiferente(merged, chave_merge, p, coluna, valor1, valor2) ==
    [par |-> p - 1,
     chave |-> str(chave_merge, chave_valor(chave_merge, merged.rows[p])),
     tipo |-> "VALOR_DIFERENTE",
     coluna |-> coluna,
     valor_base1 |-> ValorOuNull(valor1),
     valor_base2 |-> ValorOuNull(valor2),
     descricao |-> <<"Divergencia na chave">> \o str(chave_merge, chave_valor(chave_merge, merged.rows[p]))
                   \o <<"coluna", coluna>>]

\* the records of one both-present row: one pass over colunas_comparacao
CompararLinha(merged, chave_merge, colunas, p) ==
    Concat([k \in 1..Len(colunas) |->
        LET valor1 == merged.rows[p][<<colunas[k], "_base1">>]
            valor2 == merged.rows[p][<<colunas[k], "_base2">>]
        IN IF isna(valor1) /\ isna(valor2) THEN <<>>
           ELSE IF isna(valor1) \/ isna(valor2) \/ valor1 # valor2
                THEN <<ValorDiferente(merged, chave_merge, p, colunas[k], valor1, valor2)>>
                ELSE <<>>])

\* linha[col_base1], linha[col_base2] of a label the row does not have: KeyError
RotuloAusente(merged, colunas, linhas_ambas) ==
    /\ linhas_ambas # <<>>
    /\ \E k \in 1..Len(colunas) :
          \/ <<colunas[k], "_base1">> \notin DOMAIN merged.rows[linhas_ambas[1]]
          \/ <<colunas[k], "_base2">> \notin DOMAIN merged.rows[linhas_ambas[1]]

\* one pass over merged, each row giving its records in turn
DivergenciasLista_ordemDosPares(merged, chave_merge, colunas, so_base1, so_base2, ambas) ==
    Concat([p \in 1..Len(merged.rows) |->
        IF merged.rows[p][<<"_merge">>] = "left_only"
        THEN <<LinhaFaltandoBase2(merged, chave_merge, p)>>
        ELSE IF merged.rows[p][<<"_merge">>] = "right_only"
             THEN <<LinhaFaltandoBase1(merged, chave_merge, p)>>
             ELSE CompararLinha(merged, chave_merge, colunas, p)])

\* the three loops: rows only in base 1, rows only in base 2, rows in both
DivergenciasLista(merged, chave_merge, colunas, so_base1, so_base2, ambas) ==
    [i \in 1..Len(so_base1) |-> LinhaFaltandoBase2(merged, chave_merge, so_base1[i])]
    \o [i \in 1..Len(so_base2) |-> LinhaFaltandoBase1(merged, chave_merge, so_base2[i])]
    \o Concat([i \in 1..Len(ambas) |-> CompararLinha(merged, chave_merge, colunas, ambas[i])])

\* erro: the call ends in an uncaught KeyError and assigns nothing
identificar_divergencias_com_merge(d1, d2, chave) ==
    LET prep == preparar_dados_para_comparacao(d1, d2, chave)
        m == merge(prep.df1_prep, prep.df2_prep, prep.chave_merge)
        linhas_so_base1 == Filtrar(m.df, "left_only")
        linhas_so_base2 == Filtrar(m.df, "right_only")
        linhas_ambas == Filtrar(m.df, "both")
        colunas == colunas_comparacao(d1, prep.chave_merge)
    IN IF m.erro \/ RotuloAusente(m.df, colunas, linhas_ambas)
       THEN [erro |-> TRUE, merged |-> m.df, divergencias_lista |-> <<>>,
             linhas_so_base1 |-> 0, linhas_so_base2 |-> 0, linhas_comuns |-> 0]
       ELSE [erro |-> FALSE, merged |-> m.df,
             divergencias_lista |->
                 DivergenciasLista(m.df, prep.chave_merge, colunas,
                                   linhas_so_base1, linhas_so_base2, linhas_ambas),
             linhas_so_base1 |-> Len(linhas_so_base1),
             linhas_so_base2 |-> Len(linhas_so_base2),
             linhas_comuns |-> Len(linhas_ambas)]

\* pd.DataFrame(divergencias_lista), pd.DataFrame() of no records
DataFrameDe(lista) ==
    IF lista # <<>> THEN [columns |-> ColunasDivergencias, rows |-> lista]
    ELSE DataFrameVazio

(***************************************************************************)
(* usar_pandas_compare_quando_possivel                                     *)
(***************************************************************************)
\* a fast path that does not look at the key
CompareAplicavel_semChave(d1, d2, chave) ==
    /\ Len(d1.rows) = Len(d2.rows)
    /\ d1.columns = d2.columns

CompareAplicavel(d1, d2, chave) ==
    /\ Len(d1.rows) = Len(d2.rows)
    /\ d1.columns = d2.columns
    /\ chave = ChaveNone

\* the mask of compare(): cells that differ, two NaN being equal
Difere(a, b) == ~((a = b) \/ (isna(a) /\ isna(b)))

\* df1.compare(df2, align_axis=0, keep_shape=True, keep_equal=False): the rows of
\* self and other alternate under the index labels <<i, 'self'>>, <<i, 'other'>>;
\* the columns keep their flat labels; an equal cell is NaN
compare(d1, d2) ==
    [index |-> [q \in 1..(2 * Len(d1.rows)) |->
                   <<(q - 1) \div 2, IF q % 2 = 1 THEN "self" ELSE "other">>],
     columns |-> [i \in 1..Len(d1.columns) |-> <<d1.columns[i]>>],
     rows |-> [q \in 1..(2 * Len(d1.rows)) |->
                  [l \in {<<c>> : c \in Range(d1.columns)} |->
                      LET a == d1.rows[(q + 1) \div 2][l[1]]
                          b == d2.rows[(q + 1) \div 2][l[1]]
                      IN IF Difere(a, b) THEN (IF q % 2 = 1 THEN a ELSE b) ELSE NaN]]]

\* comparison.columns.get_level_values(0).unique()
Nivel0(columns) == [i \in 1..Len(columns) |-> columns[i][1]]

strIdx(idx) == <<"(", Digitos[idx[1] + 1], ",", idx[2], ")">>

\* the records the loop over comparison appends
ListaDoCompare(comparison) ==
    Concat([q \in 1..Len(comparison.index) |->
        Concat([k \in 1..Len(Nivel0(comparison.columns)) |->
            LET col == Nivel0(comparison.columns)[k] IN
            IF /\ <<col, "self">> \in Range(comparison.columns)
               /\ <<col, "other">> \in Range(comparison.columns)
            THEN LET val_self == comparison.rows[q][<<col, "self">>]
                     val_other == comparison.rows[q][<<col, "other">>]
                 IN IF ~(isna(val_self) /\ isna(val_other))
                    THEN <<[par |-> comparison.index[q][1],
                            chave |-> strIdx(comparison.index[q]),
                            tipo |-> "VALOR_DIFERENTE",
                            coluna |-> col,
                            valor_base1 |-> ValorOuNull(val_self),
                            valor_base2 |-> ValorOuNull(val_other),
                            descricao |-> <<"Divergencia na linha">>
                                          \o strIdx(comparison.index[q])
                                          \o <<"coluna", col>>]>>
                    ELSE <<>>
            ELSE <<>>])])

\* the divergence list the fast path leaves when it handles the run
usar_pandas_compare(d1, d2) ==
    LET comparison == compare(d1, d2) IN
    IF ~empty(comparison) THEN ListaDoCompare(comparison) ELSE <<>>

(***************************************************************************)
(* The inputs: two files and the key.                                      *)
(***************************************************************************)
Nomes == {"id", "x", "y"}
\* up to renaming the columns, base 1 holds the first names
ListasBase1 == {<<"id", "x">>, <<"id", "x", "y">>}
\* base 2: the same columns, reordered, fewer, others, none in common
ListasBase2 ==
    {<<"id">>, <<"y">>, <<"id", "x">>, <<"x", "id">>, <<"x", "y">>, <<"id", "x", "y">>}

TabelasDe(cols, n) ==
    {[columns |-> cols, rows |-> r] : r \in [1..n -> [Range(cols) -> Celulas]]}

Formas ==
    {f \in ListasBase1 \X ListasBase2 \X (0..MaxLinhas) \X (0..MaxLinhas) :
        Len(f[1]) * f[3] + Len(f[2]) * f[4] <= MaxCelulas}

Chaves ==
    {ChaveNone} \cup {ChaveStr(n) : n \in Nomes} \cup {ChaveLista(<<"id", "x">>)}

Arquivo(ext, tabela) == [ext |-> ext, conteudo |-> tabela]
Extensoes == {".csv", ".xlsx", ".xls", ".txt"}
Suportado(ext) == ext \in {".csv", ".xlsx", ".xls"}

\* two files within the bounds, a file and a copy of it, files of every extension
Init ==
    /\ \/ \E f \in Formas :
             /\ arquivo_base1 \in {Arquivo(".csv", t) : t \in TabelasDe(f[1], f[3])}
             /\ arquivo_base2 \in {Arquivo(".csv", t) : t \in TabelasDe(f[2], f[4])}
             /\ chave_primaria \in Chaves
       \/ \E cols \in ListasBase1, n \in 0..MaxLinhas :
             /\ Len(cols) * n <= MaxCelulas
             /\ arquivo_base1 \in {Arquivo(".csv", t) : t \in TabelasDe(cols, n)}
             /\ arquivo_base2 = arquivo_base1
             /\ chave_primaria \in Chaves
       \/ /\ arquivo_base1 \in {Arquivo(e, t) : e \in Extensoes, t \in TabelasDe(<<"id">>, 1)}
          /\ arquivo_base2 \in {Arquivo(e, t) : e \in Extensoes, t \in TabelasDe(<<"id">>, 1)}
          /\ chave_primaria = ChaveNone
    /\ df1 = None
    /\ df2 = None
    /\ divergencias_df = None
    /\ resumo_stats = <<>>
    /\ pc = "carregar_dados"
    /\ saida = ""

(***************************************************************************)
(* The steps of executar_reconciliacao_otimizada.                          *)
(***************************************************************************)
Atualizar(stats, k, v) == (k :> v) @@ stats

\* carregar_dados: an unsupported file ends the process with sys.exit(1)
CarregarDados ==
    /\ pc = "carregar_dados"
    /\ IF Suportado(arquivo_base1.ext) /\ Suportado(arquivo_base2.ext)
       THEN /\ df1' = arquivo_base1.conteudo
            /\ df2' = arquivo_base2.conteudo
            /\ resumo_stats' =
                  Atualizar(Atualizar(Atualizar(Atualizar(resumo_stats,
                      "linhas_base1", Len(arquivo_base1.conteudo.rows)),
                      "linhas_base2", Len(arquivo_base2.conteudo.rows)),
                      "colunas_base1", Len(arquivo_base1.conteudo.columns)),
                      "colunas_base2", Len(arquivo_base2.conteudo.columns))
            /\ pc' = "validar_estrutura"
            /\ saida' = saida
       ELSE /\ df1' = IF Suportado(arquivo_base1.ext) THEN arquivo_base1.conteudo ELSE None
            /\ df2' = None
            /\ resumo_stats' = resumo_stats
            /\ pc' = "exit"
            /\ saida' = "1"
    /\ UNCHANGED <<arquivo_base1, arquivo_base2, chave_primaria, divergencias_df>>

\* validar_estrutura: the lists made of sets come in any order
ValidarEstrutura ==
    /\ pc = "validar_estrutura"
    /\ \E colunas_comuns \in Ordens(ColunasComuns(df1, df2)),
          faltando_base2 \in Ordens(Range(df1.columns) \ Range(df2.columns)),
          faltando_base1 \in Ordens(Range(df2.columns) \ Range(df1.columns)) :
          /\ resumo_stats' =
                Atualizar(Atualizar(resumo_stats,
                    "colunas_faltando_base2", faltando_base2),
                    "colunas_faltando_base1", faltando_base1)
          /\ df1' = EstruturaValidada(df1, df2, colunas_comuns)[1]
          /\ df2' = EstruturaValidada(df1, df2, colunas_comuns)[2]
    /\ pc' = "usar_pandas_compare"
    /\ UNCHANGED <<arquivo_base1, arquivo_base2, chave_primaria, divergencias_df, saida>>

\* usar_pandas_compare_quando_possivel: True leads to the report, False to the merge
UsarPandasCompare ==
    /\ pc = "usar_pandas_compare"
    /\ IF CompareAplicavel(df1, df2, chave_primaria)
       THEN /\ divergencias_df' = DataFrameDe(usar_pandas_compare(df1, df2))
            /\ resumo_stats' = Atualizar(resumo_stats, "total_divergencias",
                                         Len(usar_pandas_compare(df1, df2)))
            /\ pc' = "gerar_relatorio"
       ELSE /\ UNCHANGED <<divergencias_df, resumo_stats>>
            /\ pc' = "identificar_divergencias_com_merge"
    /\ UNCHANGED <<arquivo_base1, arquivo_base2, chave_primaria, df1, df2, saida>>

\* identificar_divergencias_com_merge: a KeyError leaves the run by the exception
IdentificarDivergenciasComMerge ==
    /\ pc = "identificar_divergencias_com_merge"
    /\ LET r == identificar_divergencias_com_merge(df1, df2, chave_primaria) IN
       IF r.erro
       THEN /\ UNCHANGED <<divergencias_df, resumo_stats>>
            /\ pc' = "excecao"
            /\ saida' = "KeyError"
       ELSE /\ divergencias_df' = DataFrameDe(r.divergencias_lista)
            /\ resumo_stats' =
                  Atualizar(Atualizar(Atualizar(Atualizar(resumo_stats,
                      "total_divergencias", Len(r.divergencias_lista)),
                      "linhas_so_base1", r.linhas_so_base1),
                      "linhas_so_base2", r.linhas_so_base2),
                      "linhas_comuns", r.linhas_comuns)
            /\ pc' = "gerar_relatorio"
            /\ saida' = saida
    /\ UNCHANGED <<arquivo_base1, arquivo_base2, chave_primaria, df1, df2>>

\* gerar_relatorio_otimizado prints and writes the report; the run returns
\* divergencias_df.empty, which main turns into the exit code
GerarRelatorio ==
    /\ pc = "gerar_relatorio"
    /\ pc' = "fim"
    /\ saida' = IF empty(divergencias_df) THEN "0" ELSE "1"
    /\ UNCHANGED <<arquivo_base1, arquivo_base2, chave_primaria, df1, df2,
                   divergencias_df, resumo_stats>>

Next ==
    \/ CarregarDados
    \/ ValidarEstrutura
    \/ UsarPandasCompare
    \/ IdentificarDivergenciasComMerge
    \/ GerarRelatorio

Spec == Init /\ [][Next]_vars

(***************************************************************************)
(* executar_reconciliacao_otimizada as a function of the loaded tables,    *)
(* the key and the iteration order of the set of common columns: what the  *)
(* steps above leave when the run ends.                                    *)
(***************************************************************************)
executar_reconciliacao_otimizada(b1, b2, chave, colunas_comuns) ==
    LET v == EstruturaValidada(b1, b2, colunas_comuns) IN
    IF CompareAplicavel(v[1], v[2], chave)
    THEN [erro |-> FALSE, caminho |-> "compare",
          divergencias_lista |-> usar_pandas_compare(v[1], v[2]),
          linhas_so_base1 |-> 0, linhas_so_base2 |-> 0, linhas_comuns |-> 0]
    ELSE LET r == identificar_divergencias_com_merge(v[1], v[2], chave) IN
         [erro |-> r.erro, caminho |-> "merge",
          divergencias_lista |-> r.divergencias_lista,
          linhas_so_base1 |-> r.linhas_so_base1,
          linhas_so_base2 |-> r.linhas_so_base2,
          linhas_comuns |-> r.linhas_comuns]

(***************************************************************************)
(* Vocabulary of the properties.                                           *)
(***************************************************************************)
B1 == arquivo_base1.conteudo
B2 == arquivo_base2.conteudo
Carregavel == Suportado(arquivo_base1.ext) /\ Suportado(arquivo_base2.ext)
Terminou == pc \in {"fim", "excecao", "exit"}
AposValidar ==
    pc \in {"usar_pandas_compare", "identificar_divergencias_com_merge",
            "gerar_relatorio", "fim", "excecao"}
TemRelatorio == pc \in {"gerar_relatorio", "fim"}

NomesDaChave(chave) == IF chave = ChaveNone THEN {} ELSE Range(ColunasChave(chave))
ChaveValida(chave, t1, t2) ==
    NomesDaChave(chave) \subseteq (Range(t1.columns) \cap Range(t2.columns))

TiposFaltando == {"LINHA_FALTANDO_BASE1", "LINHA_FALTANDO_BASE2"}
Min(a, b) == IF a < b THEN a ELSE b
Max(a, b) == IF a < b THEN b ELSE a

\* the run agrees with executar_reconciliacao_otimizada for some order of the set
ExecucaoCoerente ==
    (Terminou /\ Carregavel) =>
        \E ordem \in Ordens(ColunasComuns(B1, B2)) :
            LET r == executar_reconciliacao_otimizada(B1, B2, chave_primaria, ordem) IN
            /\ r.erro = (pc = "excecao")
            /\ pc = "fim" => /\ divergencias_df = DataFrameDe(r.divergencias_lista)
                             /\ resumo_stats["total_divergencias"] = Len(r.divergencias_lista)

(***************************************************************************)
(* C1. Identity: reconciling a table against itself, with no key, a key    *)
(* column or a list of key columns of the table (duplicate key values      *)
(* included), ends without error with an empty divergence collection and   *)
(* total_divergencias = 0.                                                 *)
(***************************************************************************)
C1_Identidade ==
    (Terminou /\ Carregavel /\ B1 = B2 /\ ChaveValida(chave_primaria, B1, B2)) =>
        /\ pc = "fim"
        /\ divergencias_df # None
        /\ divergencias_df.rows = <<>>
        /\ resumo_stats["total_divergencias"] = 0

\* the same, for the runs without a key and with a key column of unique values
ValoresUnicos(t, nome) ==
    \A i, j \in 1..Len(t.rows) : t.rows[i][nome] = t.rows[j][nome] => i = j

C1_Identidade_ChaveUnica ==
    (/\ Terminou /\ Carregavel /\ B1 = B2 /\ ChaveValida(chave_primaria, B1, B2)
     /\ chave_primaria.tipo # "list"
     /\ isinstance_str(chave_primaria) => ValoresUnicos(B1, chave_primaria.nome)) =>
        /\ pc = "fim"
        /\ divergencias_df # None
        /\ divergencias_df.rows = <<>>
        /\ resumo_stats["total_divergencias"] = 0

(***************************************************************************)
(* C2. Null handling: in a completed run, for every aligned pair with both *)
(* rows present and every compared column, two nulls give no record and    *)
(* exactly one null gives exactly one VALOR_DIFERENTE record with the      *)
(* non-null value unchanged and 'NULL' on the null side, under positional  *)
(* alignment (equal or unequal row counts) and under key-based alignment.  *)
(***************************************************************************)
\* the pairs <<index label in the join, row of df1, row of df2>> with both rows
ParesComAmbas(d1, d2, chave) ==
    LET prep == preparar_dados_para_comparacao(d1, d2, chave)
        pares == ParesAlinhados(prep.df1_prep, prep.df2_prep, ColunasChave(prep.chave_merge))
    IN {<<p - 1, pares[p][1], pares[p][2]>> : p \in {q \in DOMAIN pares :
                                                pares[q][1] # 0 /\ pares[q][2] # 0}}

NulosTratados ==
    LET regs == divergencias_df.rows IN
    \A t \in ParesComAmbas(df1, df2, chave_primaria) :
        \A c \in Range(df1.columns) \ NomesDaChave(chave_primaria) :
            LET a == df1.rows[t[2]][c]
                b == df2.rows[t[3]][c]
                doPar == {q \in DOMAIN regs : regs[q].par = t[1] /\ regs[q].coluna = c}
            IN /\ (isna(a) /\ isna(b)) => doPar = {}
               /\ (isna(a) # isna(b)) =>
                     /\ Cardinality(doPar) = 1
                     /\ \A q \in doPar :
                           /\ regs[q].tipo = "VALOR_DIFERENTE"
                           /\ regs[q].valor_base1 = (IF isna(a) THEN "NULL" ELSE a)
                           /\ regs[q].valor_base2 = (IF isna(b) THEN "NULL" ELSE b)

C2_Nulos == pc = "fim" => NulosTratados

\* the same, for the runs that identificar_divergencias_com_merge handles
C2_Nulos_Merge ==
    (pc = "fim" /\ ~CompareAplicavel(df1, df2, chave_primaria)) => NulosTratados

(***************************************************************************)
(* C4. Comparison column set: the columns compared for a both-present pair *)
(* are exactly the common columns that are neither a key column nor        *)
(* '__linha_original__', for a key that is a column name and for a key     *)
(* that is a list of two or more names; the comparison completes without   *)
(* error and no VALOR_DIFERENTE record names a key column.                 *)
(***************************************************************************)
C4_ColunasDeComparacao ==
    (/\ Carregavel /\ AposValidar /\ ChaveValida(chave_primaria, df1, df2)
     /\ ~CompareAplicavel(df1, df2, chave_primaria)
     /\ ParesComAmbas(df1, df2, chave_primaria) # {}) =>
        LET prep == preparar_dados_para_comparacao(df1, df2, chave_primaria) IN
        /\ Range(colunas_comparacao(df1, prep.chave_merge))
              = (Range(df1.columns) \ NomesDaChave(chave_primaria)) \ {LinhaOriginal}
        /\ pc # "excecao"
        /\ TemRelatorio =>
              \A q \in DOMAIN divergencias_df.rows :
                  divergencias_df.rows[q].tipo = "VALOR_DIFERENTE"
                      => divergencias_df.rows[q].coluna \notin NomesDaChave(chave_primaria)

\* the same, for a key that is None or one column name
C4_ColunasDeComparacao_ChaveSimples ==
    (/\ Carregavel /\ AposValidar /\ ChaveValida(chave_primaria, df1, df2)
     /\ chave_primaria.tipo # "list"
     /\ ~CompareAplicavel(df1, df2, chave_primaria)
     /\ ParesComAmbas(df1, df2, chave_primaria) # {}) =>
        LET prep == preparar_dados_para_comparacao(df1, df2, chave_primaria) IN
        /\ Range(colunas_comparacao(df1, prep.chave_merge))
              = (Range(df1.columns) \ NomesDaChave(chave_primaria)) \ {LinhaOriginal}
        /\ pc # "excecao"
        /\ TemRelatorio =>
              \A q \in DOMAIN divergencias_df.rows :
                  divergencias_df.rows[q].tipo = "VALOR_DIFERENTE"
                      => divergencias_df.rows[q].coluna \notin NomesDaChave(chave_primaria)

(***************************************************************************)
(* C6. Structure validation: when the column sets differ, both tables get  *)
(* as columns the columns of base 1 that base 2 also has, in base 1's      *)
(* order, with rows and row order unchanged; when the sets are equal, no   *)
(* table's columns change.                                                 *)
(***************************************************************************)
ComunsNaOrdemDaBase1 == SelectSeq(B1.columns, LAMBDA c : c \in Range(B2.columns))

C6_ValidarEstrutura ==
    AposValidar =>
        IF Range(B1.columns) # Range(B2.columns)
        THEN /\ df1 = Projetar(B1, ComunsNaOrdemDaBase1)
             /\ df2 = Projetar(B2, ComunsNaOrdemDaBase1)
        ELSE df1 = B1 /\ df2 = B2

\* the same up to the order of the columns
C6_ValidarEstrutura_AMenosDaOrdem ==
    AposValidar =>
        IF Range(B1.columns) # Range(B2.columns)
        THEN \E ordem \in Ordens(ColunasComuns(B1, B2)) :
                df1 = Projetar(B1, ordem) /\ df2 = Projetar(B2, ordem)
        ELSE df1 = B1 /\ df2 = B2

(***************************************************************************)
(* C9. Fast path equals reference: when usar_pandas_compare_quando_possivel*)
(* handles the run, the records it leaves are the (row position, column,   *)
(* valor_base1, valor_base2) VALOR_DIFERENTE records that                  *)
(* identificar_divergencias_com_merge produces for the same tables, and    *)
(* total_divergencias agrees.                                              *)
(***************************************************************************)
Diferencas(lista) ==
    {<<lista[q].par, lista[q].coluna, lista[q].valor_base1, lista[q].valor_base2>> :
        q \in {n \in DOMAIN lista : lista[n].tipo = "VALOR_DIFERENTE"}}

C9_CompareIgualAoMerge ==
    (TemRelatorio /\ CompareAplicavel(df1, df2, chave_primaria)) =>
        LET ref == identificar_divergencias_com_merge(df1, df2, chave_primaria) IN
        /\ Diferencas(divergencias_df.rows) = Diferencas(ref.divergencias_lista)
        /\ resumo_stats["total_divergencias"] = Len(ref.divergencias_lista)

(***************************************************************************)
(* C3. Duplicate-key fan-out: with a key column, a key value held by m     *)
(* rows of base 1 and n rows of base 2 gives m*n both-present pairs, each  *)
(* base-1 row compared with each base-2 row of that key; no row is dropped,*)
(* no error is raised, and linhas_comuns is the sum of m*n over the shared *)
(* key values.                                                             *)
(***************************************************************************)
\* the pairs of rows of df1 and df2 that hold the same key value
MesmaChave(nome) ==
    {t \in (1..Len(df1.rows)) \X (1..Len(df2.rows)) :
        df1.rows[t[1]][nome] = df2.rows[t[2]][nome]}

C3_FanOut ==
    (/\ Terminou /\ Carregavel /\ isinstance_str(chave_primaria)
     /\ ChaveValida(chave_primaria, B1, B2)) =>
        LET nome == chave_primaria.nome
            regs == divergencias_df.rows
        IN
        /\ pc = "fim"
        /\ resumo_stats["linhas_comuns"] = Cardinality(MesmaChave(nome))
        /\ resumo_stats["linhas_so_base1"] =
              Cardinality({i \in 1..Len(df1.rows) :
                  \A j \in 1..Len(df2.rows) : df1.rows[i][nome] # df2.rows[j][nome]})
        /\ resumo_stats["linhas_so_base2"] =
              Cardinality({j \in 1..Len(df2.rows) :
                  \A i \in 1..Len(df1.rows) : df1.rows[i][nome] # df2.rows[j][nome]})
        /\ \A c \in Range(df1.columns) \ {nome} : \A k, va, vb \in Celulas :
              Len(SelectSeq(regs, LAMBDA r : /\ r.tipo = "VALOR_DIFERENTE"
                                      /\ r.chave = <<Token(nome, k)>>
                                      /\ r.coluna = c
                                      /\ r.valor_base1 = (IF isna(va) THEN "NULL" ELSE va)
                                      /\ r.valor_base2 = (IF isna(vb) THEN "NULL" ELSE vb)))
              = IF va = vb THEN 0
                ELSE Cardinality({t \in MesmaChave(nome) :
                        /\ df1.rows[t[1]][nome] = k
                        /\ df1.rows[t[1]][c] = va
                        /\ df2.rows[t[2]][c] = vb})

\* two rows of base 1 and a row of base 2 share a key value and differ in a column
C3_Testemunha ==
    /\ pc = "fim"
    /\ isinstance_str(chave_primaria)
    /\ \E i1, i2 \in 1..Len(df1.rows) : \E j \in 1..Len(df2.rows) :
          /\ i1 # i2
          /\ <<i1, j>> \in MesmaChave(chave_primaria.nome)
          /\ <<i2, j>> \in MesmaChave(chave_primaria.nome)
    /\ resumo_stats["linhas_comuns"] >= 2
    /\ \E q \in DOMAIN divergencias_df.rows :
          divergencias_df.rows[q].tipo = "VALOR_DIFERENTE"

(***************************************************************************)
(* C5. Missing key column: when a requested key column is absent from base *)
(* 1, from base 2 or from both, the run ends in an error raised before any *)
(* aligned pair exists; divergencias_df stays unset, and the run takes     *)
(* neither the positional alignment nor the pandas.compare path.           *)
(***************************************************************************)
ChaveAusente == chave_primaria # ChaveNone /\ ~ChaveValida(chave_primaria, B1, B2)

C5_ChaveAusente ==
    (Carregavel /\ ChaveAusente) =>
        /\ divergencias_df = None
        /\ ~TemRelatorio
        /\ "total_divergencias" \notin DOMAIN resumo_stats
        /\ pc = "usar_pandas_compare" => ~CompareAplicavel(df1, df2, chave_primaria)
        /\ pc = "identificar_divergencias_com_merge" =>
              LET prep == preparar_dados_para_comparacao(df1, df2, chave_primaria) IN
              /\ prep.chave_merge = chave_primaria
              /\ merge(prep.df1_prep, prep.df2_prep, prep.chave_merge).erro
        /\ Terminou => (pc = "excecao" /\ saida = "KeyError")

\* the run of a key that only base 2 lacks has ended in the KeyError
C5_Testemunha ==
    /\ pc = "excecao"
    /\ ChaveAusente
    /\ NomesDaChave(chave_primaria) \subseteq Range(B1.columns)

(***************************************************************************)
(* C7. Symmetry of row-missing kinds: with a key, if base A has exactly    *)
(* one row of key k and base B none, reconciling (A, B) gives exactly one  *)
(* LINHA_FALTANDO_BASE2 record for k and no LINHA_FALTANDO_BASE1 record    *)
(* for k, reconciling (B, A) gives exactly one LINHA_FALTANDO_BASE1 record *)
(* for k and no LINHA_FALTANDO_BASE2 record for k, and the two runs have   *)
(* as many row-missing records, linhas_so_base1 and linhas_so_base2        *)
(* exchanged.                                                              *)
(***************************************************************************)
ValorDaChave(chave, kv) == IF isinstance_str(chave) THEN kv[1] ELSE kv

SimetriaDe(i) ==
    LET on == ColunasChave(chave_primaria)
        kv == ValoresChave(df1.rows[i], on)
        k == str(chave_primaria, ValorDaChave(chave_primaria, kv))
    IN
    (Len(LinhasComChave(df1, on, kv)) = 1 /\ Len(LinhasComChave(df2, on, kv)) = 0) =>
        /\ pc = "fim"
        /\ Len(SelectSeq(divergencias_df.rows,
                  LAMBDA r : r.tipo = "LINHA_FALTANDO_BASE2" /\ r.chave = k)) = 1
        /\ Len(SelectSeq(divergencias_df.rows,
                  LAMBDA r : r.tipo = "LINHA_FALTANDO_BASE1" /\ r.chave = k)) = 0
        /\ \A ordem \in Ordens(ColunasComuns(B2, B1)) :
              LET inv == executar_reconciliacao_otimizada(B2, B1, chave_primaria, ordem) IN
              /\ ~inv.erro
              /\ Len(SelectSeq(inv.divergencias_lista,
                        LAMBDA r : r.tipo = "LINHA_FALTANDO_BASE1" /\ r.chave = k)) = 1
              /\ Len(SelectSeq(inv.divergencias_lista,
                        LAMBDA r : r.tipo = "LINHA_FALTANDO_BASE2" /\ r.chave = k)) = 0
              /\ Len(SelectSeq(inv.divergencias_lista, LAMBDA r : r.tipo \in TiposFaltando))
                    = Len(SelectSeq(divergencias_df.rows, LAMBDA r : r.tipo \in TiposFaltando))
              /\ inv.linhas_so_base1 = resumo_stats["linhas_so_base2"]
              /\ inv.linhas_so_base2 = resumo_stats["linhas_so_base1"]

C7_Simetria ==
    (/\ Terminou /\ Carregavel /\ chave_primaria # ChaveNone
     /\ ChaveValida(chave_primaria, B1, B2)) =>
        \A i \in 1..Len(df1.rows) : SimetriaDe(i)

\* the same, for a key that is one column name
C7_Simetria_ChaveSimples ==
    (/\ Terminou /\ Carregavel /\ isinstance_str(chave_primaria)
     /\ ChaveValida(chave_primaria, B1, B2)) =>
        \A i \in 1..Len(df1.rows) : SimetriaDe(i)

(***************************************************************************)
(* C8. Positional alignment with unequal lengths: with no key, row i of    *)
(* base 1 is paired with row i of base 2 for every i below both lengths,   *)
(* and every position i from the shorter length up to the longer one gets  *)
(* exactly one row-missing record (LINHA_FALTANDO_BASE2 when base 1 is     *)
(* longer, LINHA_FALTANDO_BASE1 when base 2 is longer) whose key is the    *)
(* row number; there are no other row-missing records.                     *)
(* The claim numbers the rows from 1 (key i+1); the code from 0 (key i).   *)
(***************************************************************************)
SemChaveTamanhosDiferentes ==
    pc = "fim" /\ chave_primaria = ChaveNone /\ Len(df1.rows) # Len(df2.rows)

\* row i of base 1 is compared with row i of base 2, column by column
PareadoPorPosicao ==
    LET regs == divergencias_df.rows
        menor == Min(Len(df1.rows), Len(df2.rows))
    IN /\ \A i \in 0..(menor - 1) : \A c \in Range(df1.columns) :
             LET a == df1.rows[i + 1][c]
                 b == df2.rows[i + 1][c]
             IN Len(SelectSeq(regs, LAMBDA r : /\ r.tipo = "VALOR_DIFERENTE"
                                        /\ r.par = i
                                        /\ r.coluna = c
                                        /\ r.valor_base1 = (IF isna(a) THEN "NULL" ELSE a)
                                        /\ r.valor_base2 = (IF isna(b) THEN "NULL" ELSE b)))
                = IF a = b THEN 0 ELSE 1
       /\ Len(SelectSeq(regs, LAMBDA r : r.tipo = "VALOR_DIFERENTE"))
             = Cardinality({t \in (0..(menor - 1)) \X Range(df1.columns) :
                               df1.rows[t[1] + 1][t[2]] # df2.rows[t[1] + 1][t[2]]})
       /\ resumo_stats["linhas_comuns"] = menor

\* one row-missing record per position beyond the shorter table, keyed i + primeira
FaltandoPorPosicao(primeira) ==
    LET regs == divergencias_df.rows
        n1 == Len(df1.rows)
        n2 == Len(df2.rows)
        faltando == IF n1 > n2 THEN "LINHA_FALTANDO_BASE2" ELSE "LINHA_FALTANDO_BASE1"
    IN /\ \A i \in Min(n1, n2)..(Max(n1, n2) - 1) :
             Len(SelectSeq(regs, LAMBDA r : /\ r.tipo = faltando
                                     /\ r.chave = <<Digitos[i + primeira + 1]>>)) = 1
       /\ Len(SelectSeq(regs, LAMBDA r : r.tipo \in TiposFaltando)) = Max(n1, n2) - Min(n1, n2)

\* C8 as claimed: the key of the row-missing record of position i is i+1
C8_PosicionalBaseUm ==
    SemChaveTamanhosDiferentes => (PareadoPorPosicao /\ FaltandoPorPosicao(1))

\* C8 as amended: the key of the row-missing record of position i is i
C8_PosicionalBaseZero ==
    SemChaveTamanhosDiferentes => (PareadoPorPosicao /\ FaltandoPorPosicao(0))

\* base 1 has two rows and base 2 one, and the rows at position 0 differ
C8_Testemunha ==
    /\ SemChaveTamanhosDiferentes
    /\ Len(df1.rows) = 2
    /\ Len(df2.rows) = 1
    /\ \E q \in DOMAIN divergencias_df.rows :
          divergencias_df.rows[q].tipo = "LINHA_FALTANDO_BASE2"
    /\ \E q \in DOMAIN divergencias_df.rows :
          divergencias_df.rows[q].tipo = "VALOR_DIFERENTE"

(***************************************************************************)
(* C10. Emission order.                                                    *)
(* As claimed: the records follow the order of the aligned pairs of the    *)
(* outer join, whatever their kinds, and within one both-present pair the  *)
(* VALOR_DIFERENTE records follow the table's column order.                *)
(* As amended: the records come grouped by kind (LINHA_FALTANDO_BASE2,     *)
(* then LINHA_FALTANDO_BASE1, then VALOR_DIFERENTE); within a kind they    *)
(* follow the order of the aligned pairs, and within one both-present pair *)
(* the order of the columns of base 1 after validar_estrutura.             *)
(***************************************************************************)
Grupo(tipo) ==
    CASE tipo = "LINHA_FALTANDO_BASE2" -> 1
      [] tipo = "LINHA_FALTANDO_BASE1" -> 2
      [] tipo = "VALOR_DIFERENTE" -> 3

NaOrdemDasColunas(r1, r2) ==
    (r1.tipo = "VALOR_DIFERENTE" /\ r2.tipo = "VALOR_DIFERENTE" /\ r1.par = r2.par)
        => Indice(df1.columns, r1.coluna) < Indice(df1.columns, r2.coluna)

C10_OrdemDosPares ==
    pc = "fim" =>
        LET regs == divergencias_df.rows IN
        \A i, j \in DOMAIN regs :
            i < j => /\ regs[i].par <= regs[j].par
                     /\ NaOrdemDasColunas(regs[i], regs[j])

C10_OrdemPorTipo ==
    pc = "fim" =>
        LET regs == divergencias_df.rows IN
        \A i, j \in DOMAIN regs :
            i < j => /\ Grupo(regs[i].tipo) <= Grupo(regs[j].tipo)
                     /\ regs[i].tipo = regs[j].tipo => regs[i].par <= regs[j].par
                     /\ NaOrdemDasColunas(regs[i], regs[j])

\* a row-missing record of a later pair precedes two records of one earlier pair
C10_Testemunha ==
    /\ pc = "fim"
    /\ \E i, j, k \in DOMAIN divergencias_df.rows :
          /\ i < j /\ j < k
          /\ divergencias_df.rows[i].tipo \in TiposFaltando
          /\ divergencias_df.rows[j].tipo = "VALOR_DIFERENTE"
          /\ divergencias_df.rows[k].tipo = "VALOR_DIFERENTE"
          /\ divergencias_df.rows[j].par = divergencias_df.rows[k].par
          /\ divergencias_df.rows[i].par > divergencias_df.rows[j].par

====
